---------------------------- MODULE Spec2Model ----------------------------
(***************************************************************************)
(* Model of the clinic page script (src/style.css, a DOMContentLoaded      *)
(* handler written in JavaScript): notification toasts, the universal      *)
(* modal handler, the patient search / selection widget and the generic    *)
(* AJAX form submission handler; and of the realtime module                *)
(* (src/firebase_app.js): initialization, the auth-state observer and the  *)
(* subscription factory.  The two scripts share no state; Spec is the page *)
(* script, RealtimeSpec the realtime module.                               *)
(*                                                                         *)
(* JavaScript callbacks run to completion on one thread, so every event    *)
(* listener, promise continuation and timer callback is one atomic action. *)
(* The effects a callback performs are appended, in code order, to `log`,  *)
(* which holds the effects of the most recent callback only.               *)
(*                                                                         *)
(* Text is a sequence of tokens: single characters where the code looks    *)
(* inside the text (trim, encodeURIComponent, HTML attribute parsing) and  *)
(* whole literals elsewhere.                                               *)
(***************************************************************************)
EXTENDS Naturals, Sequences, FiniteSets, TLC

-----------------------------------------------------------------------------
(* Bounds of the model *)

\* user events that issue a request or show a notification (key releases
\* that search, form submits) per behaviour
MaxEvents == 2
\* longest text typed into the search field
MaxLen == 3
\* most patients in one search response
MaxResults == 2

-----------------------------------------------------------------------------
(* JavaScript values *)

Null == "<null>"
Undefined == "<undefined>"

\* the values JavaScript's || and ! treat as false, among those that occur
Falsy(v) == v \in {Null, Undefined, ""}

\* a || b
Or(a, b) == IF Falsy(a) THEN b ELSE a

QUOTE == "\""

-----------------------------------------------------------------------------
(* The page: which of the elements the script looks up exist.  The HTML is  *)
(* produced by the server; the script handles every absence defensively.   *)

FormIds == {"patientForm", "consultationForm", "medicineForm", "appointmentForm"}

\* patients.php: the patient form in a modal, a second modal without a form,
\* and a trigger whose target names no element
PatientsPage ==
    [ name |-> "patients",
      forms |-> {"patientForm"},
      modals |-> {"patientModal", "detailsModal"},
      \* form.closest('.modal')
      closestModal |-> [f \in {"patientForm"} |-> "patientModal"],
      \* modal.querySelector('form')
      firstForm |-> [m \in {"patientModal", "detailsModal"} |->
                           IF m = "patientModal" THEN "patientForm" ELSE Null],
      \* the data-modal-target values of the trigger buttons
      targets |-> {"patientModal", "detailsModal", "missingModal"},
      hasSearch |-> FALSE,
      hasIdInput |-> FALSE,
      hasNameDisplay |-> FALSE ]

\* an inventory page: the medicine form on the page itself, no modal
InventoryPage ==
    [ name |-> "inventory",
      forms |-> {"medicineForm"},
      modals |-> {},
      closestModal |-> [f \in {"medicineForm"} |-> Null],
      firstForm |-> [m \in {} |-> Null],
      targets |-> {},
      hasSearch |-> FALSE,
      hasIdInput |-> FALSE,
      hasNameDisplay |-> FALSE ]

\* appointments.php: the form in a modal, the search widget and both of the
\* fields a selection fills
AppointmentsPage ==
    [ name |-> "appointments",
      forms |-> {"appointmentForm"},
      modals |-> {"appointmentModal"},
      closestModal |-> [f \in {"appointmentForm"} |-> "appointmentModal"],
      firstForm |-> [m \in {"appointmentModal"} |-> "appointmentForm"],
      targets |-> {"appointmentModal"},
      hasSearch |-> TRUE,
      hasIdInput |-> TRUE,
      hasNameDisplay |-> TRUE ]

\* consultations.php with the name display missing
ConsultationsPage ==
    [ name |-> "consultations",
      forms |-> {"consultationForm"},
      modals |-> {},
      closestModal |-> [f \in {"consultationForm"} |-> Null],
      firstForm |-> [m \in {} |-> Null],
      targets |-> {},
      hasSearch |-> TRUE,
      hasIdInput |-> TRUE,
      hasNameDisplay |-> FALSE ]

\* a consultation form on a page without the search widget and the
\* identifier field
ConsultationsPageNoId ==
    [ name |-> "consultationsNoId",
      forms |-> {"consultationForm"},
      modals |-> {},
      closestModal |-> [f \in {"consultationForm"} |-> Null],
      firstForm |-> [m \in {} |-> Null],
      targets |-> {},
      hasSearch |-> FALSE,
      hasIdInput |-> FALSE,
      hasNameDisplay |-> FALSE ]

Pages == {PatientsPage, InventoryPage, AppointmentsPage, ConsultationsPage,
          ConsultationsPageNoId}

-----------------------------------------------------------------------------
VARIABLES
    page,               \* the page loaded (fixed for a behaviour)
    display,            \* modal id -> style.display
    formValue,          \* form id -> 0 (default values) or 1 (user-entered data)
    patientIdInput,     \* #patient_id_input .value
    patientNameDisplay, \* #patient_name_display .textContent
    patientSearchInput, \* #patient_search_input .value
    searchResults,      \* children of #patient_search_results
    panelSeq,           \* history: the request whose response rendered the panel, 0 = none
    newestRendered,     \* history: the newest request whose response was ever rendered
    searches,           \* search GET requests in flight
    posts,              \* form POST requests in flight
    events,             \* budgeted user events so far; numbers requests and notifications
    notifications,      \* notification elements of document.body, newest first
    timers,             \* pending setTimeout callbacks, in registration order
    log                 \* effects of the most recent callback, in code order

pageVars == << page, display, formValue, patientIdInput, patientNameDisplay,
               patientSearchInput, searchResults, panelSeq, newestRendered,
               searches, posts, events, notifications, timers, log >>

\* The realtime module (src/firebase_app.js), a script of its own.
VARIABLES
    appId,              \* const appId
    firebaseConfig,     \* const firebaseConfig, the parsed configuration
    initialAuthToken,   \* const initialAuthToken
    app,                \* let app
    db,                 \* let db
    auth,               \* let auth
    userId,             \* let userId
    isAuthReady,        \* let isAuthReady
    pc,                 \* where initializeFirebase stands
    signIns,            \* the sign-in calls made, in order
    currentUser,        \* auth.currentUser, as the auth service holds it
    observerPending,    \* an auth state the registered observer has not been told yet
    authChanges,        \* sign-ins and sign-outs by other modules so far
    subscriptions,      \* the onSnapshot listeners opened, in order
    fetches,            \* calls of fetchRealtimeData so far
    fbLog               \* effects of the most recent callback of the module

fbVars == << appId, firebaseConfig, initialAuthToken, app, db, auth, userId,
             isAuthReady, pc, signIns, currentUser, observerPending,
             authChanges, subscriptions, fetches, fbLog >>

vars == << pageVars, fbVars >>

domVars == << display, formValue, patientIdInput, patientNameDisplay,
              patientSearchInput, searchResults, panelSeq, newestRendered >>

\* the state of a freshly loaded page `p`
Loaded(p) ==
    /\ display = [m \in p.modals |-> "none"]
    /\ formValue = [f \in p.forms |-> 0]
    /\ patientIdInput = <<>>
    /\ patientNameDisplay = <<>>
    /\ patientSearchInput = <<>>
    /\ searchResults = <<>>
    /\ panelSeq = 0
    /\ newestRendered = 0
    /\ searches = {}
    /\ posts = {}
    /\ notifications = <<>>
    /\ timers = <<>>

\* the null user of the auth service
NoUser == [ present |-> FALSE, uid |-> Undefined ]

\* the page does not include the realtime module
NoRealtimeModule ==
    /\ appId = Null
    /\ firebaseConfig = [ type |-> "undefined", keys |-> {} ]
    /\ initialAuthToken = Null
    /\ app = Null
    /\ db = Null
    /\ auth = Null
    /\ userId = Null
    /\ isAuthReady = FALSE
    /\ pc = "absent"
    /\ signIns = <<>>
    /\ currentUser = NoUser
    /\ observerPending = FALSE
    /\ authChanges = 0
    /\ subscriptions = <<>>
    /\ fetches = 0
    /\ fbLog = <<>>

Init ==
    /\ page \in Pages
    /\ Loaded(page)
    /\ events = 0
    /\ log = <<>>
    /\ NoRealtimeModule

-----------------------------------------------------------------------------
(* The part of the state a callback works on, threaded through its          *)
(* statements in code order.  `registered` tells whether the callback has  *)
(* already registered a timer.                                             *)

Cur(event) ==
    [ display |-> display, formValue |-> formValue,
      notifications |-> notifications, timers |-> timers, posts |-> posts,
      log |-> << event >>, registered |-> FALSE ]

Commit(s) ==
    /\ display' = s.display
    /\ formValue' = s.formValue
    /\ notifications' = s.notifications
    /\ timers' = s.timers
    /\ posts' = s.posts
    /\ log' = s.log

Effect(s, e) == [s EXCEPT !.log = Append(@, e)]

\* setTimeout(callback, delay): `cont` marks a timer registered by the same
\* callback as the timer before it
setTimeout(s, kind, delay, id) ==
    Effect([s EXCEPT !.timers = Append(@, [kind |-> kind, delay |-> delay,
                                           id |-> id, cont |-> s.registered]),
                     !.registered = TRUE],
           << "setTimeout", kind >>)

-----------------------------------------------------------------------------
(* 1. Notification system *)

NotificationTimeout == 4000

\* showNotification(message, type): create the element, prepend it to the
\* body, register the auto-remove timer
showNotification(s, id, message, type) ==
    LET notification == [ id |-> id, message |-> message,
                          type |-> type, hide |-> FALSE ]
        shown == Effect([s EXCEPT !.notifications = << notification >> \o @],
                        << "notify", type >>)
    IN  setTimeout(shown, "notification", NotificationTimeout, id)

-----------------------------------------------------------------------------
(* 2. Universal modal handler *)

setDisplay(s, m, value) ==
    Effect([s EXCEPT !.display[m] = value], << "display", m, value >>)

\* form.reset()
formReset(s, f) ==
    Effect([s EXCEPT !.formValue[f] = 0], << "reset", f >>)

\* mutant: opening a modal closes every other modal
openModalButton_Exclusive(s, modalId) ==
    IF modalId \in page.modals
    THEN [s EXCEPT !.display = [m \in page.modals |->
                                   IF m = modalId THEN "block" ELSE "none"],
                   !.log = Append(@, << "display", modalId, "block" >>)]
    ELSE s

\* the click listener of a [data-modal-target] button
openModalButton(s, modalId) ==
    IF modalId \in page.modals
    THEN setDisplay(s, modalId, "block")
    ELSE s

\* the click listener of a .modal .close-button; m is button.closest('.modal')
closeModalButton(s, m) ==
    LET closed == setDisplay(s, m, "none")
        form   == page.firstForm[m]
    IN  IF form # Null THEN formReset(closed, form) ELSE closed

\* mutant: any class that starts with 'modal' counts
TargetIsModal_Prefix(target) ==
    target.classList \cap {"modal", "modal-content"} # {}

\* event.target.classList.contains('modal')
TargetIsModal(target) == "modal" \in target.classList

\* the window click listener; it sees every click on the page
windowClick(s, target) ==
    IF TargetIsModal(target)
    THEN setDisplay(s, target.id, "none")
    ELSE s

ModalElement(m)   == [ id |-> m, classList |-> {"modal"} ]
ContentElement(m) == [ id |-> m, classList |-> {"modal-content"} ]
ButtonElement(m)  == [ id |-> m, classList |-> {"close-button"} ]
TriggerElement(t) == [ id |-> t, classList |-> {} ]

searchVars == << patientIdInput, patientNameDisplay, patientSearchInput,
                 searchResults, panelSeq, newestRendered >>

ClickTrigger(t) ==
    /\ t \in page.targets
    /\ Commit(windowClick(openModalButton(Cur(<< "click", "trigger", t >>), t),
                          TriggerElement(t)))
    /\ UNCHANGED << fbVars, page, searchVars, searches, events >>

ClickCloseButton(m) ==
    /\ m \in page.modals
    /\ Commit(windowClick(closeModalButton(Cur(<< "click", "close-button", m >>), m),
                          ButtonElement(m)))
    /\ UNCHANGED << fbVars, page, searchVars, searches, events >>

\* a click on the backdrop: the target is the modal element itself
ClickModal(m) ==
    /\ m \in page.modals
    /\ Commit(windowClick(Cur(<< "click", "modal", m >>), ModalElement(m)))
    /\ UNCHANGED << fbVars, page, searchVars, searches, events >>

\* a click on the content inside a modal, on no control of it
ClickModalContent(m) ==
    /\ m \in page.modals
    /\ Commit(windowClick(Cur(<< "click", "modal-content", m >>), ContentElement(m)))
    /\ UNCHANGED << fbVars, page, searchVars, searches, events >>

\* the user edits a field of a form
TypeInForm(f) ==
    /\ f \in page.forms
    /\ formValue[f] = 0
    /\ formValue' = [formValue EXCEPT ![f] = 1]
    /\ log' = << << "input", f >> >>
    /\ UNCHANGED << fbVars, page, display, searchVars, searches, posts, events,
                    notifications, timers >>

-----------------------------------------------------------------------------
(* Timers.  Nothing is modelled of time but the order it forces: a timer    *)
(* cannot fire while an earlier registered timer with a delay no longer     *)
(* than its own is pending, nor while a timer the same callback registered  *)
(* after it with a shorter delay is pending.                                *)

SameCallback(ts, i, j) == \A k \in (i + 1)..j : ts[k].cont

MayFire(ts, i) ==
    /\ \A j \in 1..(i - 1) : ts[j].delay > ts[i].delay
    /\ \A j \in (i + 1)..Len(ts) :
          ~ (SameCallback(ts, i, j) /\ ts[j].delay < ts[i].delay)

RemoveAt(ts, i) ==
    [ k \in 1..(Len(ts) - 1) |->
        IF k < i THEN ts[k]
        ELSE IF k = i THEN [ts[k + 1] EXCEPT !.cont = @ /\ ts[i].cont]
        ELSE ts[k + 1] ]

\* mutant: the timer removes the notification at once, without the exit
\* transition
NotificationTimerFires_RemovesAtOnce(i) ==
    /\ i \in DOMAIN timers
    /\ timers[i].kind = "notification"
    /\ MayFire(timers, i)
    /\ notifications' = SelectSeq(notifications,
                                  LAMBDA n : n.id # timers[i].id)
    /\ timers' = RemoveAt(timers, i)
    /\ log' = << << "timeout", "notification" >>, << "remove" >> >>
    /\ UNCHANGED << fbVars, page, domVars, searches, posts, events >>

\* the auto-remove timer of a notification: add the class 'hide' and listen
\* for the end of the transition
NotificationTimerFires(i) ==
    /\ i \in DOMAIN timers
    /\ timers[i].kind = "notification"
    /\ MayFire(timers, i)
    /\ notifications' = [ k \in DOMAIN notifications |->
                            IF notifications[k].id = timers[i].id
                            THEN [notifications[k] EXCEPT !.hide = TRUE]
                            ELSE notifications[k] ]
    /\ timers' = RemoveAt(timers, i)
    /\ log' = << << "timeout", "notification" >>, << "hide" >> >>
    /\ UNCHANGED << fbVars, page, domVars, searches, posts, events >>

\* transitionend on a hidden notification: notification.remove()
TransitionEnd(k) ==
    /\ k \in DOMAIN notifications
    /\ notifications[k].hide
    /\ notifications' = [ j \in 1..(Len(notifications) - 1) |->
                            IF j < k THEN notifications[j] ELSE notifications[j + 1] ]
    /\ log' = << << "transitionend" >>, << "remove" >> >>
    /\ UNCHANGED << fbVars, page, domVars, searches, posts, events, timers >>

\* window.location.reload(): the document and everything pending in it
\* (requests, timers) is discarded and the page is loaded afresh
ReloadTimerFires(i) ==
    /\ i \in DOMAIN timers
    /\ timers[i].kind = "reload"
    /\ MayFire(timers, i)
    /\ display' = [m \in page.modals |-> "none"]
    /\ formValue' = [f \in page.forms |-> 0]
    /\ patientIdInput' = <<>>
    /\ patientNameDisplay' = <<>>
    /\ patientSearchInput' = <<>>
    /\ searchResults' = <<>>
    /\ panelSeq' = 0
    /\ newestRendered' = 0
    /\ searches' = {}
    /\ posts' = {}
    /\ notifications' = <<>>
    /\ timers' = <<>>
    /\ UNCHANGED << fbVars, page, events >>
    /\ log' = << << "timeout", "reload" >>, << "reload" >> >>

-----------------------------------------------------------------------------
(* 4. AJAX form submission handlers *)

\* the arguments of the four handleFormSubmission calls
SuccessMessage(formId) ==
    CASE formId = "patientForm"      -> "Patient record added successfully!"
      [] formId = "consultationForm" -> "Consultation logged successfully!"
      [] formId = "medicineForm"     -> "Medicine added to inventory successfully!"
      [] formId = "appointmentForm"  -> "Appointment scheduled successfully!"

FailureMessage(formId) ==
    CASE formId = "patientForm"      -> "Failed to add patient"
      [] formId = "consultationForm" -> "Failed to log consultation"
      [] formId = "medicineForm"     -> "Failed to add medicine"
      [] formId = "appointmentForm"  -> "Failed to schedule appointment"

\* mutant: the appointment form is left out of the check
NeedsPatient_ConsultationOnly(formId) == formId = "consultationForm"

\* formId === 'consultationForm' || formId === 'appointmentForm'
NeedsPatient(formId) == formId \in {"consultationForm", "appointmentForm"}

\* !patientIdInput || !patientIdInput.value
NoPatientSelected == ~ page.hasIdInput \/ patientIdInput = <<>>

\* fetch('/clinic-system/api/handler.php', {method: 'POST', body: formData})
fetchPost(s, id, formId) ==
    Effect([s EXCEPT !.posts = @ \cup {[ seq |-> id, form |-> formId ]}],
           << "fetch", "POST" >>)

\* mutant: a busy guard, a submit is dropped while a request of the form is
\* in flight
submitListener_Guarded(s, id, formId) ==
    LET prevented == Effect(s, << "preventDefault" >>)
    IN  IF \E p \in s.posts : p.form = formId
        THEN prevented
        ELSE IF NeedsPatient(formId) /\ NoPatientSelected
             THEN showNotification(prevented, id, "Please select a patient first.", "error")
             ELSE fetchPost(prevented, id, formId)

\* the submit listener handleFormSubmission binds to the form
submitListener(s, id, formId) ==
    LET prevented == Effect(s, << "preventDefault" >>)
    IN  IF NeedsPatient(formId) /\ NoPatientSelected
        THEN showNotification(prevented, id, "Please select a patient first.", "error")
        ELSE fetchPost(prevented, id, formId)

Submit(f) ==
    /\ f \in page.forms
    /\ events < MaxEvents
    /\ events' = events + 1
    /\ Commit(submitListener(Cur(<< "submit", f >>), events + 1, f))
    /\ UNCHANGED << fbVars, page, searchVars, searches >>

\* What the backend may answer: any HTTP status with any body.
HttpStatuses == {200, 201, 500}

Bodies ==
    {[ json |-> "invalid", status |-> Undefined, message |-> Undefined ],
     [ json |-> "null", status |-> Undefined, message |-> Undefined ]}
    \cup [ json : {"object"},
           status : {"success", "duplicate", Undefined},
           message : {Undefined, "", "ID exists"} ]

Responses == [ status : HttpStatuses, body : Bodies ]

\* mutant: the status of the response is not looked at
ResponseOk_Unchecked(response) == TRUE

\* response.ok
ResponseOk(response) == response.status \in 200..299

Thrown(message) == [ thrown |-> TRUE, message |-> message, data |-> Null ]
Resolved(data)  == [ thrown |-> FALSE, message |-> "", data |-> data ]

\* the first .then: reject a response that is not ok, else parse the body
parseResponse(response) ==
    IF ~ ResponseOk(response)
    THEN Thrown("HTTP error! Status: " \o ToString(response.status))
    ELSE IF response.body.json = "invalid"
         THEN Thrown("Unexpected token < in JSON at position 0")
         ELSE Resolved(response.body)

ReloadDelay == 500

\* mutant: the reload is scheduled first, the modal is left open
onSuccess_ReloadFirst(s, id, formId) ==
    LET scheduled == setTimeout(s, "reload", ReloadDelay, id)
        notified  == showNotification(scheduled, id, SuccessMessage(formId), "success")
    IN  formReset(notified, formId)

\* the branch data.status === 'success'
onSuccess(s, id, formId) ==
    LET notified == showNotification(s, id, SuccessMessage(formId), "success")
        reset    == formReset(notified, formId)
        modal    == page.closestModal[formId]
        closed   == IF modal # Null THEN setDisplay(reset, modal, "none") ELSE reset
    IN  setTimeout(closed, "reload", ReloadDelay, id)

\* failureMessage + ': ' + (data.message || 'Unknown error.')
failureText(formId, data) ==
    FailureMessage(formId) \o ": " \o Or(data.message, "Unknown error.")

\* mutant: the failure branch clears the form as well
onFailure_Resets(s, id, formId, data) ==
    formReset(showNotification(s, id, failureText(formId, data), "error"), formId)

onFailure(s, id, formId, data) ==
    showNotification(s, id, failureText(formId, data), "error")

\* mutant: the .catch only logs
onError_Silent(s, id, message) == Effect(s, << "console.error" >>)

\* the .catch
onError(s, id, message) ==
    showNotification(Effect(s, << "console.error" >>), id,
                     "An unexpected error occurred: " \o message, "error")

\* the second .then; reading data.status of null throws
onData(s, id, formId, data) ==
    IF data.json = "null"
    THEN onError(s, id, "Cannot read properties of null (reading 'status')")
    ELSE IF data.status = "success"
         THEN onSuccess(s, id, formId)
         ELSE onFailure(s, id, formId, data)

\* the promise chain .then(...).then(...).catch(...) on a settled response
onResponse(s, id, formId, response) ==
    LET parsed == parseResponse(response)
    IN  IF parsed.thrown
        THEN onError(s, id, parsed.message)
        ELSE onData(s, id, formId, parsed.data)

Settled(s, req) == [s EXCEPT !.posts = @ \ {req}]

PostResponse(req, response) ==
    /\ req \in posts
    /\ response \in Responses
    /\ Commit(onResponse(Settled(Cur(<< "response", req.form >>), req),
                         req.seq, req.form, response))
    /\ UNCHANGED << fbVars, page, searchVars, searches, events >>

\* fetch itself rejects (no connection)
PostNetworkFailure(req) ==
    /\ req \in posts
    /\ Commit(onError(Settled(Cur(<< "rejected", req.form >>), req),
                      req.seq, "Failed to fetch"))
    /\ UNCHANGED << fbVars, page, searchVars, searches, events >>

-----------------------------------------------------------------------------
(* 3. Patient search / selection *)

Chars == {" ", "a"}

\* the texts the user can have in the search field
SearchTexts == UNION { [1..n -> Chars] : n \in 0..MaxLen }

RECURSIVE trimStart(_)
trimStart(t) ==
    IF t # <<>> /\ Head(t) = " " THEN trimStart(Tail(t)) ELSE t

RECURSIVE trimEnd(_)
trimEnd(t) ==
    IF t # <<>> /\ t[Len(t)] = " " THEN trimEnd(SubSeq(t, 1, Len(t) - 1)) ELSE t

\* String.prototype.trim
trim(t) == trimEnd(trimStart(t))

\* encodeURIComponent, on the characters that occur: a space is escaped
RECURSIVE encodeURIComponent(_)
encodeURIComponent(t) ==
    IF t = <<>> THEN <<>>
    ELSE (IF Head(t) = " " THEN << "%", "2", "0" >> ELSE << Head(t) >>)
         \o encodeURIComponent(Tail(t))

\* what the backend reads back from the query string
RECURSIVE decodeURIComponent(_)
decodeURIComponent(t) ==
    IF t = <<>> THEN <<>>
    ELSE IF Len(t) >= 3 /\ SubSeq(t, 1, 3) = << "%", "2", "0" >>
         THEN << " " >> \o decodeURIComponent(SubSeq(t, 4, Len(t)))
         ELSE << Head(t) >> \o decodeURIComponent(Tail(t))

\* mutant: the threshold is off by one
TooShort_OffByOne(searchTerm) == Len(searchTerm) < 1

\* searchTerm.length < 2
TooShort(searchTerm) == Len(searchTerm) < 2

\* fetch(`/clinic-system/api/handler.php?action=search_patients&term=...`)
SearchRequest(id, searchTerm) ==
    [ seq |-> id, action |-> "search_patients",
      term |-> encodeURIComponent(searchTerm) ]

\* the keyup listener of the search field; `value` is this.value
KeyUp(value) ==
    /\ page.hasSearch
    /\ value \in SearchTexts
    /\ patientSearchInput' = value
    /\ LET searchTerm == trim(value)
       IN  IF TooShort(searchTerm)
           THEN /\ searchResults' = <<>>
                /\ panelSeq' = 0
                /\ log' = << << "keyup" >>, << "clear" >> >>
                /\ UNCHANGED << searches, events >>
           ELSE /\ events < MaxEvents
                /\ searches' = searches \cup {SearchRequest(events + 1, searchTerm)}
                /\ events' = events + 1
                /\ log' = << << "keyup" >>, << "fetch", "GET" >> >>
                /\ UNCHANGED << searchResults, panelSeq >>
    /\ UNCHANGED << fbVars, page, display, formValue, patientIdInput, patientNameDisplay,
                    newestRendered, posts, notifications, timers >>

\* the patients the backend knows; the second name holds a double quote
Patients ==
    { [ patient_id |-> << "1" >>, full_name |-> << "a" >>, id_number |-> << "7" >> ],
      [ patient_id |-> << "2" >>, full_name |-> << "b", QUOTE, "c" >>,
        id_number |-> << "8" >> ] }

\* the JSON bodies a search can be answered with: null, or an array of patients
SearchData ==
    {[ json |-> "null", rows |-> <<>> ]}
    \cup { [ json |-> "array", rows |-> r ] :
             r \in UNION { [1..n -> Patients] : n \in 0..MaxResults } }

\* one row of the template literal: the markup of a result, with the three
\* interpolated values
rowHtml(p) ==
    [ class |-> "search-result-item",
      dataId |-> p.patient_id,
      dataName |-> p.full_name,
      text |-> p.full_name \o << " (" >> \o p.id_number \o << ")" >> ]

noResultsHtml == [ class |-> "search-no-results", dataId |-> <<>>,
                   dataName |-> <<>>, text |-> << "No patients found." >> ]

\* the string `html` the response handler builds
resultsHtml(data) ==
    IF data.json = "array" /\ Len(data.rows) > 0
    THEN [ k \in 1..Len(data.rows) |-> rowHtml(data.rows[k]) ]
    ELSE << noResultsHtml >>

\* the HTML parser on a double-quoted attribute value: the value ends at the
\* first double quote
RECURSIVE attributeValue(_)
attributeValue(raw) ==
    IF raw = <<>> \/ Head(raw) = QUOTE THEN <<>>
    ELSE << Head(raw) >> \o attributeValue(Tail(raw))

\* the element the parser builds from the markup of one row
parseElement(h) ==
    [ classList |-> {h.class},
      dataset |-> [ id |-> attributeValue(h.dataId),
                    name |-> attributeValue(h.dataName) ],
      textContent |-> h.text ]

\* searchResults.innerHTML = html
setInnerHTML(html) == [ k \in 1..Len(html) |-> parseElement(html[k]) ]

\* mutant: a response older than one already rendered is discarded
renderResponse_LatestOnly(req, data) ==
    IF req.seq < newestRendered
    THEN UNCHANGED << searchResults, panelSeq, newestRendered >>
    ELSE /\ searchResults' = setInnerHTML(resultsHtml(data))
         /\ panelSeq' = req.seq
         /\ newestRendered' = req.seq

\* mutant: a response is rendered only while the field holds a term long
\* enough to search for
renderResponse_IfSearching(req, data) ==
    IF TooShort(trim(patientSearchInput))
    THEN UNCHANGED << searchResults, panelSeq, newestRendered >>
    ELSE /\ searchResults' = setInnerHTML(resultsHtml(data))
         /\ panelSeq' = req.seq
         /\ newestRendered' = IF req.seq > newestRendered THEN req.seq ELSE newestRendered

\* the response handler: it renders whatever arrives
renderResponse(req, data) ==
    /\ searchResults' = setInnerHTML(resultsHtml(data))
    /\ panelSeq' = req.seq
    /\ newestRendered' = IF req.seq > newestRendered THEN req.seq ELSE newestRendered

SearchResponse(req, data) ==
    /\ req \in searches
    /\ data \in SearchData
    /\ searches' = searches \ {req}
    /\ renderResponse(req, data)
    /\ log' = << << "response", "search" >>, << "render" >> >>
    /\ UNCHANGED << fbVars, page, display, formValue, patientIdInput, patientNameDisplay,
                    patientSearchInput, posts, events, notifications, timers >>

\* fetch rejects or the body is no JSON: the .catch logs and does nothing else
SearchFailure(req) ==
    /\ req \in searches
    /\ searches' = searches \ {req}
    /\ log' = << << "rejected", "search" >>, << "console.error" >> >>
    /\ UNCHANGED << fbVars, page, domVars, posts, events, notifications, timers >>

\* mutant: only the identifier field is looked for
SelectionTargetsExist_IdOnly == page.hasIdInput

\* patientIdInput && patientNameDisplay
SelectionTargetsExist == page.hasIdInput /\ page.hasNameDisplay

\* the click listener of the result panel; target is the child clicked
selectResult(target) ==
    IF "search-result-item" \in target.classList
    THEN IF SelectionTargetsExist
         THEN /\ patientIdInput' = target.dataset.id
              /\ patientNameDisplay' = << "Selected: " >> \o target.dataset.name
              /\ patientSearchInput' = <<>>
              /\ searchResults' = <<>>
              /\ panelSeq' = 0
         ELSE UNCHANGED << patientIdInput, patientNameDisplay, patientSearchInput,
                           searchResults, panelSeq >>
    ELSE UNCHANGED << patientIdInput, patientNameDisplay, patientSearchInput,
                      searchResults, panelSeq >>

ClickResult(k) ==
    /\ page.hasSearch
    /\ k \in DOMAIN searchResults
    /\ selectResult(searchResults[k])
    /\ Commit(windowClick(Cur(<< "click", "result" >>),
                          [ id |-> Null, classList |-> searchResults[k].classList ]))
    /\ UNCHANGED << fbVars, page, newestRendered, searches, events >>

-----------------------------------------------------------------------------
Next ==
    \/ \E t \in page.targets : ClickTrigger(t)
    \/ \E m \in page.modals : ClickCloseButton(m)
    \/ \E m \in page.modals : ClickModal(m)
    \/ \E m \in page.modals : ClickModalContent(m)
    \/ \E f \in page.forms : TypeInForm(f)
    \/ \E f \in page.forms : Submit(f)
    \/ \E req \in posts, response \in Responses : PostResponse(req, response)
    \/ \E req \in posts : PostNetworkFailure(req)
    \/ \E value \in SearchTexts : KeyUp(value)
    \/ \E req \in searches, data \in SearchData : SearchResponse(req, data)
    \/ \E req \in searches : SearchFailure(req)
    \/ \E k \in DOMAIN searchResults : ClickResult(k)
    \/ \E i \in DOMAIN timers : NotificationTimerFires(i)
    \/ \E k \in DOMAIN notifications : TransitionEnd(k)
    \/ \E i \in DOMAIN timers : ReloadTimerFires(i)

Spec == Init /\ [][Next]_vars

\* The browser runs every timer that is due, and the transition the class
\* 'hide' starts (opacity and transform, 0.5 s) ends.
TimerFires == \E i \in DOMAIN timers : NotificationTimerFires(i) \/ ReloadTimerFires(i)

TransitionEnds == \E k \in DOMAIN notifications : TransitionEnd(k)

FairSpec == Spec /\ WF_vars(TimerFires) /\ WF_vars(TransitionEnds)

-----------------------------------------------------------------------------
(* The realtime module, src/firebase_app.js.  The module-level statements  *)
(* run when the script is loaded; initializeFirebase runs up to its await  *)
(* in the same turn and resumes when the sign-in promise settles.          *)

\* auth changes made by other modules through the exported handle
MaxAuthChanges == 2
\* calls of the exported fetchRealtimeData
MaxFetches == 2
\* most documents in one snapshot
MaxDocs == 2

\* the values the host page may inject as __app_id
InjectedAppIds == {Undefined, "clinic"}

\* the texts the host page may inject as __firebase_config
InjectedConfigs ==
    {Undefined, "{}", "null", "{\"apiKey\":\"k\",\"projectId\":\"p\"}", "{\"apiKey\":"}

\* the values the host page may inject as __initial_auth_token
InjectedTokens == {Undefined, "", "token"}

\* JSON.parse on the texts that occur; a text that is no JSON throws
JSONparse(text) ==
    CASE text = "{}"   -> [ type |-> "object", keys |-> {} ]
      [] text = "null" -> [ type |-> "null", keys |-> {} ]
      [] text = "{\"apiKey\":\"k\",\"projectId\":\"p\"}" ->
                          [ type |-> "object", keys |-> {"apiKey", "projectId"} ]
      [] OTHER         -> [ type |-> "SyntaxError", keys |-> {} ]

\* the state after the module-level statements (lines 20-29) for the injected
\* globals; a configuration that does not parse aborts the module there
ModuleLoaded(app_id, firebase_config, initial_auth_token) ==
    /\ appId = IF app_id # Undefined THEN app_id ELSE "default-app-id"
    /\ firebaseConfig = IF firebase_config # Undefined
                        THEN JSONparse(firebase_config)
                        ELSE [ type |-> "object", keys |-> {} ]
    /\ initialAuthToken = IF initial_auth_token # Undefined
                          THEN initial_auth_token ELSE Null
    /\ app = Null
    /\ db = Null
    /\ auth = Null
    /\ userId = Null
    /\ isAuthReady = FALSE
    /\ pc = IF firebase_config # Undefined
               /\ JSONparse(firebase_config).type = "SyntaxError"
            THEN "aborted" ELSE "start"
    /\ signIns = <<>>
    /\ currentUser = NoUser
    /\ observerPending = FALSE
    /\ authChanges = 0
    /\ subscriptions = <<>>
    /\ fetches = 0
    /\ fbLog = <<>>

RealtimeInit ==
    /\ page = InventoryPage
    /\ Loaded(page)
    /\ events = 0
    /\ log = <<>>
    /\ \E app_id \in InjectedAppIds, firebase_config \in InjectedConfigs,
          initial_auth_token \in InjectedTokens :
          ModuleLoaded(app_id, firebase_config, initial_auth_token)

\* mutant: the configuration is compared with a fresh object, which is never
\* equal to it
ConfigIsEmpty_IdentityCompare(config) == FALSE

\* Object.keys(firebaseConfig).length === 0
ConfigIsEmpty(config) == Cardinality(config.keys) = 0

\* if (initialAuthToken) ... else ...
SignInMethod(token) ==
    IF Falsy(token) THEN "signInAnonymously" ELSE "signInWithCustomToken"

\* mutant: the catch block goes on to register the observer
catchInit_Observes(a, d, au) ==
    /\ app' = a
    /\ db' = d
    /\ auth' = au
    /\ pc' = IF au # Null THEN "observing" ELSE "failed"
    /\ observerPending' = (au # Null)
    /\ fbLog' = << << "initializeFirebase" >>, << "console.error", "initialization failed" >> >>
    /\ UNCHANGED << appId, firebaseConfig, initialAuthToken, userId, isAuthReady,
                    signIns, currentUser, authChanges, subscriptions, fetches >>

\* the catch block of initializeFirebase, with the handles assigned so far
catchInit(a, d, au) ==
    /\ app' = a
    /\ db' = d
    /\ auth' = au
    /\ pc' = "failed"
    /\ fbLog' = << << "initializeFirebase" >>, << "console.error", "initialization failed" >> >>
    /\ UNCHANGED << appId, firebaseConfig, initialAuthToken, userId, isAuthReady,
                    signIns, currentUser, observerPending, authChanges,
                    subscriptions, fetches >>

\* the calls of the SDK that may throw before the sign-in is started
FailPoints == {"none", "initializeApp", "getFirestore", "getAuth"}

\* initializeFirebase up to its await; failAt is the SDK call that throws
InitializeFirebase(failAt) ==
    /\ pc = "start"
    /\ failAt \in FailPoints
    /\ IF firebaseConfig.type = "null"
       THEN \* Object.keys(null) throws a TypeError
            catchInit(Null, Null, Null)
       ELSE IF ConfigIsEmpty(firebaseConfig)
       THEN /\ pc' = "returned"
            /\ fbLog' = << << "initializeFirebase" >>,
                           << "console.error", "configuration is missing or empty" >> >>
            /\ UNCHANGED << appId, firebaseConfig, initialAuthToken, app, db, auth,
                            userId, isAuthReady, signIns, currentUser,
                            observerPending, authChanges, subscriptions, fetches >>
       ELSE CASE failAt = "initializeApp" -> catchInit(Null, Null, Null)
              [] failAt = "getFirestore"  -> catchInit("FirebaseApp", Null, Null)
              [] failAt = "getAuth"       -> catchInit("FirebaseApp", "Firestore", Null)
              [] failAt = "none" ->
                   /\ app' = "FirebaseApp"
                   /\ db' = "Firestore"
                   /\ auth' = "Auth"
                   /\ signIns' = Append(signIns, SignInMethod(initialAuthToken))
                   /\ pc' = "signingIn"
                   /\ fbLog' = << << "initializeFirebase" >>,
                                  << "console.log", SignInMethod(initialAuthToken) >> >>
                   /\ UNCHANGED << appId, firebaseConfig, initialAuthToken, userId,
                                   isAuthReady, currentUser, observerPending,
                                   authChanges, subscriptions, fetches >>
    /\ UNCHANGED pageVars

\* the users the auth service may sign in
Users == { [ present |-> TRUE, uid |-> "u1" ], [ present |-> TRUE, uid |-> "u2" ] }

\* the sign-in promise resolves: the service holds the user, and
\* initializeFirebase resumes and registers the observer
SignInResolves(user) ==
    /\ pc = "signingIn"
    /\ user \in Users
    /\ currentUser' = user
    /\ pc' = "observing"
    /\ observerPending' = TRUE
    /\ fbLog' = << << "signedIn" >>, << "onAuthStateChanged" >> >>
    /\ UNCHANGED << appId, firebaseConfig, initialAuthToken, app, db, auth, userId,
                    isAuthReady, signIns, authChanges, subscriptions, fetches >>
    /\ UNCHANGED pageVars

\* the sign-in promise rejects: the await throws into the catch block
SignInRejects ==
    /\ pc = "signingIn"
    /\ catchInit(app, db, auth)
    /\ UNCHANGED pageVars

\* the identifiers crypto.randomUUID() may return
UUIDs == {"uuid-1", "uuid-2"}

\* mutant: the identifier is assigned only while it is unset
authObserver_KeepsFirst(user, uuid) ==
    /\ userId' = IF userId # Null THEN userId
                 ELSE IF user.present THEN user.uid ELSE uuid
    /\ isAuthReady' = TRUE
    /\ fbLog' = << << "authStateChanged" >>,
                   IF user.present THEN << "console.log", "User authenticated" >>
                   ELSE << "console.warn", "Using anonymous UUID" >> >>

\* mutant: no fallback identifier when there is no user
authObserver_NoFallback(user, uuid) ==
    /\ userId' = IF user.present THEN user.uid ELSE Null
    /\ isAuthReady' = TRUE
    /\ fbLog' = << << "authStateChanged" >>,
                   IF user.present THEN << "console.log", "User authenticated" >>
                   ELSE << "console.warn", "Using anonymous UUID" >> >>

\* the callback given to onAuthStateChanged; uuid is what crypto.randomUUID()
\* returns if it is called
authObserver(user, uuid) ==
    /\ userId' = IF user.present THEN user.uid ELSE uuid
    /\ isAuthReady' = TRUE
    /\ fbLog' = << << "authStateChanged" >>,
                   IF user.present THEN << "console.log", "User authenticated" >>
                   ELSE << "console.warn", "Using anonymous UUID" >> >>

\* the auth service tells the registered observer the current auth state
AuthStateChanged(uuid) ==
    /\ pc = "observing"
    /\ observerPending
    /\ uuid \in UUIDs
    /\ authObserver(currentUser, uuid)
    /\ observerPending' = FALSE
    /\ UNCHANGED << appId, firebaseConfig, initialAuthToken, app, db, auth, pc,
                    signIns, currentUser, authChanges, subscriptions, fetches >>
    /\ UNCHANGED pageVars

\* another module signs out or signs in through the exported auth handle
AuthChange(user) ==
    /\ pc = "observing"
    /\ authChanges < MaxAuthChanges
    /\ user \in Users \cup {NoUser}
    /\ user # currentUser
    /\ currentUser' = user
    /\ observerPending' = TRUE
    /\ authChanges' = authChanges + 1
    /\ fbLog' = << << "authChange" >> >>
    /\ UNCHANGED << appId, firebaseConfig, initialAuthToken, app, db, auth, userId,
                    isAuthReady, pc, signIns, subscriptions, fetches >>
    /\ UNCHANGED pageVars

\* mutant: the guard looks at the database handle only
CanFetch_DbOnly == db # Null

\* the negation of !isAuthReady || !db || !userId
CanFetch == isAuthReady /\ ~ Falsy(db) /\ ~ Falsy(userId)

\* `/artifacts/${appId}/users/${userId}/${collectionName}`
collectionPath(collectionName) ==
    "/artifacts/" \o appId \o "/users/" \o userId \o "/" \o collectionName

\* fetchRealtimeData(), called by any module that imports it
FetchRealtimeData ==
    /\ pc \notin {"absent", "aborted"}
    /\ fetches < MaxFetches
    /\ fetches' = fetches + 1
    /\ IF ~ CanFetch
       THEN /\ fbLog' = << << "fetchRealtimeData" >>,
                           << "console.error", "Cannot fetch data" >> >>
            /\ UNCHANGED subscriptions
       ELSE /\ subscriptions' = Append(subscriptions,
                                       [ db |-> db,
                                         path |-> collectionPath("your_items") ])
            /\ fbLog' = << << "fetchRealtimeData" >>,
                           << "console.log", collectionPath("your_items") >>,
                           << "collection" >>, << "query" >>, << "onSnapshot" >> >>
    /\ UNCHANGED << appId, firebaseConfig, initialAuthToken, app, db, auth, userId,
                    isAuthReady, pc, signIns, currentUser, observerPending,
                    authChanges >>
    /\ UNCHANGED pageVars

\* the documents of a collection: the data of the second has a field `id`
Docs == { [ id |-> "d1", data |-> [ f \in {"name"} |-> "x" ] ],
          [ id |-> "d2", data |-> [ f \in {"id", "name"} |-> "y" ] ] }

Snapshots == UNION { [1..n -> Docs] : n \in 0..MaxDocs }

\* { id: doc.id, ...data }: a field of the data overrides the one before it
item(doc) ==
    [ f \in {"id"} \cup DOMAIN doc.data |->
        IF f \in DOMAIN doc.data THEN doc.data[f] ELSE doc.id ]

\* the snapshot callback of subscription k
Snapshot(k, snapshot) ==
    /\ k \in DOMAIN subscriptions
    /\ snapshot \in Snapshots
    /\ fbLog' = << << "snapshot" >> >>
                 \o [ i \in 1..Len(snapshot) |-> << "item", item(snapshot[i]).id >> ]
    /\ UNCHANGED << appId, firebaseConfig, initialAuthToken, app, db, auth, userId,
                    isAuthReady, pc, signIns, currentUser, observerPending,
                    authChanges, subscriptions, fetches >>
    /\ UNCHANGED pageVars

\* the error callback of subscription k; the SDK ends the listener
SnapshotError(k) ==
    /\ k \in DOMAIN subscriptions
    /\ fbLog' = << << "snapshotError" >>,
                   << "console.error", "Firestore real-time listener failed" >> >>
    /\ UNCHANGED << appId, firebaseConfig, initialAuthToken, app, db, auth, userId,
                    isAuthReady, pc, signIns, currentUser, observerPending,
                    authChanges, subscriptions, fetches >>
    /\ UNCHANGED pageVars

RealtimeNext ==
    \/ \E failAt \in FailPoints : InitializeFirebase(failAt)
    \/ \E user \in Users : SignInResolves(user)
    \/ SignInRejects
    \/ \E uuid \in UUIDs : AuthStateChanged(uuid)
    \/ \E user \in Users \cup {NoUser} : AuthChange(user)
    \/ FetchRealtimeData
    \/ \E k \in DOMAIN subscriptions, snapshot \in Snapshots : Snapshot(k, snapshot)
    \/ \E k \in DOMAIN subscriptions : SnapshotError(k)

RealtimeSpec == RealtimeInit /\ [][RealtimeNext]_vars

-----------------------------------------------------------------------------
(* Vocabulary of the properties.  A step is recognised by the event that    *)
(* heads the log of the callback it runs.                                   *)

Fired(event) == log' # <<>> /\ log'[1] = event

\* the notification a callback adds on top of the others
Notified(id, message, type) ==
    notifications' = << [ id |-> id, message |-> message,
                          type |-> type, hide |-> FALSE ] >> \o notifications

ReloadTimers(ts) == { i \in DOMAIN ts : ts[i].kind = "reload" }

\* nothing of the form, the modals or the lookup widget changes, and no reload
\* is scheduled
PageUntouched ==
    /\ formValue' = formValue
    /\ display' = display
    /\ UNCHANGED searchVars
    /\ Cardinality(ReloadTimers(timers')) = Cardinality(ReloadTimers(timers))

-----------------------------------------------------------------------------
(* C1 *)

\* C1: a submit of consultationForm or appointmentForm while no patient is
\* selected (the identifier field is absent or empty) shows the error
\* notification, issues no request and leaves the form, the modals and the
\* rest of the page as they were; a submit of patientForm or medicineForm is
\* never stopped by this check: it always issues its POST.
C1_PatientCheck ==
    [][ \A f \in FormIds :
          (events' = events + 1 /\ Fired(<< "submit", f >>)) =>
             /\ ( f \in {"consultationForm", "appointmentForm"}
                  /\ (~ page.hasIdInput \/ patientIdInput = <<>>) ) =>
                   /\ Notified(events + 1, "Please select a patient first.", "error")
                   /\ posts' = posts
                   /\ searches' = searches
                   /\ PageUntouched
             /\ f \in {"patientForm", "medicineForm"} =>
                   /\ posts' = posts \cup {[ seq |-> events + 1, form |-> f ]}
                   /\ notifications' = notifications
      ]_vars

\* a submit of the appointment form was refused although the identifier
\* field exists
C1_Witness ==
    /\ page.hasIdInput
    /\ Len(log) >= 3
    /\ log[1] = << "submit", "appointmentForm" >>
    /\ log[3] = << "notify", "error" >>
    /\ posts = {}


-----------------------------------------------------------------------------
(* C2 *)

\* a 2xx response carrying the envelope {status: "success"}
IsSuccess(r) ==
    r.status \in 200..299 /\ r.body.json = "object" /\ r.body.status = "success"

\* the effects of the success path, in order
SuccessLog(f) ==
    << << "response", f >>, << "notify", "success" >>,
       << "setTimeout", "notification" >>, << "reset", f >> >>
    \o (IF page.closestModal[f] # Null
        THEN << << "display", page.closestModal[f], "none" >> >>
        ELSE <<>>)
    \o << << "setTimeout", "reload" >> >>

\* C2: a 2xx response with status "success" shows the success notification,
\* then resets the form, then hides the enclosing modal (if any), then
\* schedules the reload with the fixed delay, skipping none of them; a reload
\* is scheduled by nothing else, and the page reloads only from a scheduled
\* reload, so never before the reset and the close.
C2_SuccessSequence ==
    [][ /\ \A req \in posts, r \in Responses :
             (Fired(<< "response", req.form >>) /\ IsSuccess(r) /\ PostResponse(req, r)) =>
                /\ log' = SuccessLog(req.form)
                /\ Notified(req.seq, SuccessMessage(req.form), "success")
                /\ formValue'[req.form] = 0
                /\ \A m \in page.modals :
                      display'[m] = IF m = page.closestModal[req.form]
                                    THEN "none" ELSE display[m]
                /\ timers' = timers \o
                      << [ kind |-> "notification", delay |-> 4000,
                           id |-> req.seq, cont |-> FALSE ],
                         [ kind |-> "reload", delay |-> 500,
                           id |-> req.seq, cont |-> TRUE ] >>
        /\ Cardinality(ReloadTimers(timers')) > Cardinality(ReloadTimers(timers)) =>
              \E f \in page.forms : log' = SuccessLog(f)
        /\ Fired(<< "timeout", "reload" >>) => ReloadTimers(timers) # {}
      ]_vars

\* the success path has run on a form in a modal: the reload is pending, the
\* form is clear and its modal hidden
C2_Witness ==
    /\ page.name = "patients"
    /\ log = SuccessLog("patientForm")
    /\ ReloadTimers(timers) # {}
    /\ formValue["patientForm"] = 0
    /\ display["patientModal"] = "none"

-----------------------------------------------------------------------------
(* C3 *)

\* a 2xx response carrying an envelope whose status is not "success"
IsRejection(r) ==
    r.status \in 200..299 /\ r.body.json = "object" /\ r.body.status # "success"

\* C3 as stated: the text is the failure prefix followed by the message the
\* server supplied, and "Unknown error." only when the message is missing.
C3_AsStated ==
    [][ \A req \in posts, r \in Responses :
          (Fired(<< "response", req.form >>) /\ IsRejection(r) /\ PostResponse(req, r)) =>
             /\ Notified(req.seq,
                         FailureMessage(req.form) \o ": " \o
                            (IF r.body.message = Undefined
                             THEN "Unknown error." ELSE r.body.message),
                         "error")
             /\ PageUntouched
      ]_vars

\* C3 (amended): a 2xx response with a status other than "success" shows an
\* error notification whose text is the failure prefix, ": " and the server's
\* message, or "Unknown error." when the message is missing or empty; the
\* form is not reset, no modal changes and no reload is scheduled.
C3_FailureNotification ==
    [][ \A req \in posts, r \in Responses :
          (Fired(<< "response", req.form >>) /\ IsRejection(r) /\ PostResponse(req, r)) =>
             /\ Notified(req.seq,
                         FailureMessage(req.form) \o ": " \o
                            (IF r.body.message \in {Undefined, ""}
                             THEN "Unknown error." ELSE r.body.message),
                         "error")
             /\ PageUntouched
      ]_vars

\* a rejection was shown with the server's message while the form still
\* holds the user's data
C3_Witness ==
    /\ page.name = "patients"
    /\ notifications # <<>>
    /\ notifications[1].message = "Failed to add patient: ID exists"
    /\ log[1] = << "response", "patientForm" >>
    /\ formValue["patientForm"] = 1
    /\ display["patientModal"] = "block"

-----------------------------------------------------------------------------
(* C4 *)

\* C4: a response with a non-2xx status, whatever its body, shows the generic
\* error notification; the request is not issued again, the form is not reset,
\* no modal changes and no reload is scheduled.
C4_TransportError ==
    [][ \A req \in posts, r \in Responses :
          (Fired(<< "response", req.form >>) /\ r.status \notin 200..299
             /\ PostResponse(req, r)) =>
             /\ Notified(req.seq,
                         "An unexpected error occurred: HTTP error! Status: "
                            \o ToString(r.status),
                         "error")
             /\ posts' = posts \ {req}
             /\ searches' = searches
             /\ PageUntouched
      ]_vars

\* a 500 was reported while the form still holds the user's data and its
\* modal is open
C4_Witness ==
    /\ page.name = "appointments"
    /\ notifications # <<>>
    /\ notifications[1].message =
          "An unexpected error occurred: HTTP error! Status: 500"
    /\ log[1] = << "response", "appointmentForm" >>
    /\ formValue["appointmentForm"] = 1
    /\ display["appointmentModal"] = "block"
    /\ posts = {}

-----------------------------------------------------------------------------
(* C5 *)

\* the positions of a text that hold no space
Inked(t) == { i \in DOMAIN t : t[i] # " " }

Least(S) == CHOOSE i \in S : \A j \in S : i <= j
Greatest(S) == CHOOSE i \in S : \A j \in S : i >= j

\* a text without its leading and trailing spaces
Trimmed(t) ==
    IF Inked(t) = {} THEN <<>> ELSE SubSeq(t, Least(Inked(t)), Greatest(Inked(t)))

\* C5: a key release with fewer than 2 characters between the outer spaces
\* issues no request and clears the result panel; a key release with 2 or
\* more issues exactly one search request, for that trimmed term.
C5_SearchThreshold ==
    [][ Fired(<< "keyup" >>) =>
          LET term == Trimmed(patientSearchInput')
          IN  /\ posts' = posts
              /\ Len(term) < 2 =>
                    /\ searches' = searches
                    /\ searchResults' = <<>>
              /\ Len(term) >= 2 =>
                    \E r \in searches' :
                       /\ r \notin searches
                       /\ searches' = searches \cup {r}
                       /\ r.action = "search_patients"
                       /\ decodeURIComponent(r.term) = term
      ]_vars

\* a search is in flight for a term with a space inside, typed with a space
\* in front
C5_Witness ==
    /\ log = << << "keyup" >>, << "fetch", "GET" >> >>
    /\ \E r \in searches : r.term = << "a", "%", "2", "0", "a" >>
    /\ \E r \in searches : r.term = << "a", "a" >>
    /\ patientSearchInput = << " ", "a", "a" >>

-----------------------------------------------------------------------------
(* C6 *)

\* C6: no search request is cancelled or sequenced: a key release leaves
\* the requests in flight in flight, and every response that arrives is
\* rendered, whatever was requested or rendered after its request.
C6_LastResponseWins ==
    [][ /\ Fired(<< "keyup" >>) => searches \subseteq searches'
        /\ Fired(<< "response", "search" >>) =>
              \E req \in searches :
                 /\ searches' = searches \ {req}
                 /\ panelSeq' = req.seq
                 /\ searchResults' # <<>>
      ]_vars

\* the panel shows the rows of an earlier request although the response to a
\* later request was rendered before
C6_Witness ==
    /\ panelSeq # 0
    /\ panelSeq < newestRendered
    /\ \E k \in DOMAIN searchResults :
          "search-result-item" \in searchResults[k].classList
    /\ searches = {}

-----------------------------------------------------------------------------
(* C7 *)

\* C7: a click on a result row, when both target fields exist, clears the
\* search input and the panel and fills the identifier field and the name
\* display from that row; when a target field is missing, the click changes
\* none of the four.
C7_Selection ==
    [][ \A k \in DOMAIN searchResults :
          ( Fired(<< "click", "result" >>)
            /\ "search-result-item" \in searchResults[k].classList
            /\ ClickResult(k) ) =>
               IF page.hasIdInput /\ page.hasNameDisplay
               THEN /\ patientSearchInput' = <<>>
                    /\ searchResults' = <<>>
                    /\ patientIdInput' = searchResults[k].dataset.id
                    /\ patientNameDisplay' =
                          << "Selected: " >> \o searchResults[k].dataset.name
               ELSE UNCHANGED << patientSearchInput, searchResults,
                                 patientIdInput, patientNameDisplay >>
      ]_vars

\* the second patient was selected: its identifier and name are in the
\* fields, the input and the panel are clear
C7_Witness ==
    /\ log # <<>>
    /\ log[1] = << "click", "result" >>
    /\ patientIdInput = << "2" >>
    /\ patientNameDisplay = << "Selected: ", "b" >>
    /\ patientSearchInput = <<>>
    /\ searchResults = <<>>

-----------------------------------------------------------------------------
(* C8 *)

\* C8: a response with N >= 1 results renders exactly N result rows, in the
\* order of the response, each carrying the identifier and the name of its
\* result verbatim; a null or empty response renders exactly one "no
\* results" placeholder and no row; the rendering replaces the panel.
C8_RowsVerbatim ==
    [][ \A req \in searches, data \in SearchData :
          (Fired(<< "response", "search" >>) /\ SearchResponse(req, data)) =>
             IF data.json = "array" /\ Len(data.rows) >= 1
             THEN /\ Len(searchResults') = Len(data.rows)
                  /\ \A k \in DOMAIN data.rows :
                        /\ searchResults'[k].classList = {"search-result-item"}
                        /\ searchResults'[k].dataset.id = data.rows[k].patient_id
                        /\ searchResults'[k].dataset.name = data.rows[k].full_name
             ELSE /\ Len(searchResults') = 1
                  /\ searchResults'[1].classList = {"search-no-results"}
      ]_vars

-----------------------------------------------------------------------------
(* C9 *)

\* C9: nothing guards against a second submission: every submit that passes
\* the patient check adds its own POST to those in flight, also while a
\* request of the same form is in flight; and every response that settles is
\* handled on its own: it leaves the other requests in flight, adds exactly
\* one notification, its own, and on success runs the whole success path
\* with its own reload timer.
C9_NoSubmitGuard ==
    [][ /\ \A f \in FormIds :
             ( events' = events + 1 /\ Fired(<< "submit", f >>)
               /\ ~ ( f \in {"consultationForm", "appointmentForm"}
                      /\ (~ page.hasIdInput \/ patientIdInput = <<>>) ) ) =>
                /\ [ seq |-> events + 1, form |-> f ] \notin posts
                /\ posts' = posts \cup {[ seq |-> events + 1, form |-> f ]}
        /\ \A req \in posts :
             ( (Fired(<< "response", req.form >>) \/ Fired(<< "rejected", req.form >>))
               /\ req \notin posts' ) =>
                /\ posts' = posts \ {req}
                /\ Len(notifications') = Len(notifications) + 1
                /\ notifications'[1].id = req.seq
                /\ SubSeq(notifications', 2, Len(notifications')) = notifications
                /\ notifications'[1].type = "success" =>
                      /\ log' = SuccessLog(req.form)
                      /\ timers'[Len(timers')] =
                            [ kind |-> "reload", delay |-> 500,
                              id |-> req.seq, cont |-> TRUE ]
      ]_vars

\* one of two concurrent submissions of the patient form was answered and
\* notified while the other is still in flight
C9_Witness ==
    /\ page.name = "patients"
    /\ log # <<>>
    /\ log[1] = << "response", "patientForm" >>
    /\ \E r \in posts : r.form = "patientForm"
    /\ Len(notifications) = 1
    /\ \A r \in posts : notifications[1].id # r.seq

-----------------------------------------------------------------------------
(* C10 *)

\* C10 as stated: a click on the backdrop closes that modal and no other; a
\* click on any element inside the modal, its close button included, leaves
\* the visibility of every modal unchanged.
C10_AsStated ==
    [][ \A m \in page.modals :
          /\ Fired(<< "click", "modal", m >>) =>
                display' = [display EXCEPT ![m] = "none"]
          /\ (Fired(<< "click", "modal-content", m >>)
                \/ Fired(<< "click", "close-button", m >>)) =>
                display' = display
      ]_vars

\* C10 (amended): a click on the backdrop closes that modal and no other; a
\* click on an element inside the modal that is neither a close button nor a
\* modal trigger leaves the visibility of every modal unchanged.
C10_BackdropClick ==
    [][ /\ \A m \in page.modals :
             /\ Fired(<< "click", "modal", m >>) =>
                   display' = [display EXCEPT ![m] = "none"]
             /\ Fired(<< "click", "modal-content", m >>) =>
                   display' = display
        /\ Fired(<< "click", "result" >>) => display' = display
      ]_vars

\* the backdrop of the patient modal was clicked: it is closed and the other
\* modal is still open
C10_Witness ==
    /\ page.name = "patients"
    /\ log = << << "click", "modal", "patientModal" >>,
                << "display", "patientModal", "none" >> >>
    /\ display["patientModal"] = "none"
    /\ display["detailsModal"] = "block"

-----------------------------------------------------------------------------
(* C11 *)

\* C11: whenever a modal goes from open to closed by a click on its close
\* button or on its backdrop, the form of that modal is reset.
C11_ResetOnClose ==
    [][ \A m \in page.modals :
          ( (Fired(<< "click", "close-button", m >>) \/ Fired(<< "click", "modal", m >>))
            /\ display[m] = "block" /\ display'[m] = "none"
            /\ page.firstForm[m] # Null ) =>
               formValue'[page.firstForm[m]] = 0
      ]_vars

-----------------------------------------------------------------------------
(* C12 *)

\* C12: a click on a trigger opens the modal its target names and changes
\* the visibility of no other modal, so a modal that is open stays open; a
\* trigger whose target names no element changes no modal.  No form is
\* touched either way.
C12_TriggerOpensTarget ==
    [][ \A t \in page.targets :
          Fired(<< "click", "trigger", t >>) =>
             /\ display' = IF t \in page.modals
                           THEN [display EXCEPT ![t] = "block"]
                           ELSE display
             /\ formValue' = formValue
      ]_vars

\* the second modal was opened while the first was open: both are open
C12_Witness ==
    /\ page.name = "patients"
    /\ log = << << "click", "trigger", "detailsModal" >>,
                << "display", "detailsModal", "block" >> >>
    /\ display["patientModal"] = "block"
    /\ display["detailsModal"] = "block"

-----------------------------------------------------------------------------
(* C13 *)

\* the notification of event `id` is in the document
Shown(id) == \E k \in DOMAIN notifications : notifications[k].id = id

Hiding(id) ==
    \E k \in DOMAIN notifications : notifications[k].id = id /\ notifications[k].hide

\* a notification gets the class 'hide' only when its own timer fires
HiddenByTimerOnly ==
    \A id \in 1..MaxEvents :
       (Shown(id) /\ ~ Hiding(id) /\ Hiding(id)') =>
          /\ Fired(<< "timeout", "notification" >>)
          /\ \E i \in DOMAIN timers : timers[i].id = id /\ timers[i].kind = "notification"

\* C13 as stated: a notification that is shown leaves the document only at
\* the end of its exit transition, after its timer has fired; there is no
\* other path to its removal.
C13_AsStated ==
    [][ /\ HiddenByTimerOnly
        /\ \A id \in 1..MaxEvents :
              (Shown(id) /\ ~ Shown(id)') =>
                 (Hiding(id) /\ Fired(<< "transitionend" >>))
      ]_vars

\* C13 (amended): every notification that is shown is eventually removed;
\* while the page stays loaded it is removed only at the end of its exit
\* transition, which only the firing of its own timer starts (shown, hiding,
\* removed, in that order); the one other path to removal is a reload of the
\* page.
C13_SelfDismiss ==
    /\ [][ /\ HiddenByTimerOnly
            /\ \A id \in 1..MaxEvents :
                  (Shown(id) /\ ~ Shown(id)') =>
                     \/ Hiding(id) /\ Fired(<< "transitionend" >>)
                     \/ Fired(<< "timeout", "reload" >>)
          ]_vars
    /\ \A id \in 1..MaxEvents : Shown(id) ~> ~ Shown(id)

\* a notification went through its exit transition and was removed while a
\* later one is still shown, not yet hiding
C13_Witness ==
    /\ log = << << "transitionend" >>, << "remove" >> >>
    /\ ~ Shown(1)
    /\ Shown(2)
    /\ ~ Hiding(2)

-----------------------------------------------------------------------------
(* C19 *)

\* the texts of the unexpected-error notification
UnexpectedErrors ==
    { "An unexpected error occurred: " \o m :
        m \in { "HTTP error! Status: 500", "Failed to fetch",
                "Unexpected token < in JSON at position 0",
                "Cannot read properties of null (reading 'status')" } }

\* a response that is not 2xx, or whose body is no JSON
IsUnexpected(r) == r.status \notin 200..299 \/ r.body.json = "invalid"

\* C19: every submit has its native submission prevented and issues at most
\* one POST; it shows the validation error at once when the patient check
\* fails and nothing otherwise; the POST of a submit, once it settles, shows
\* exactly one notification, that of its submit: the success, the failure or
\* the unexpected-error one, the last for a non-2xx status, a network failure
\* and an unparsable body; nothing else shows a notification, and no submit
\* has both a request in flight and a notification.
C19_OneNotificationPerSubmit ==
    /\ [] ( /\ \A q \in posts : q.seq <= events /\ ~ Shown(q.seq)
            /\ \A i, j \in DOMAIN notifications :
                  notifications[i].id = notifications[j].id => i = j )
    /\ [][ /\ \A f \in FormIds :
                (events' = events + 1 /\ Fired(<< "submit", f >>)) =>
                   /\ log'[2] = << "preventDefault" >>
                   /\ posts \subseteq posts'
                   /\ Cardinality(posts' \ posts) <= 1
                   /\ IF f \in {"consultationForm", "appointmentForm"}
                         /\ (~ page.hasIdInput \/ patientIdInput = <<>>)
                      THEN /\ posts' = posts
                           /\ Notified(events + 1, "Please select a patient first.",
                                       "error")
                      ELSE /\ Cardinality(posts' \ posts) = 1
                           /\ notifications' = notifications
           /\ \A req \in posts :
                ( (Fired(<< "response", req.form >>) \/ Fired(<< "rejected", req.form >>))
                  /\ req \notin posts' ) =>
                   /\ Len(notifications') = Len(notifications) + 1
                   /\ SubSeq(notifications', 2, Len(notifications')) = notifications
                   /\ notifications'[1].id = req.seq
                   /\ \/ /\ notifications'[1].type = "success"
                         /\ notifications'[1].message = SuccessMessage(req.form)
                      \/ /\ notifications'[1].type = "error"
                         /\ notifications'[1].message \in
                               { FailureMessage(req.form) \o ": " \o m :
                                   m \in {"Unknown error.", "ID exists"} }
                      \/ /\ notifications'[1].type = "error"
                         /\ notifications'[1].message \in UnexpectedErrors
                   /\ Fired(<< "rejected", req.form >>) =>
                         notifications'[1].message \in UnexpectedErrors
                   /\ \A r \in Responses :
                         (IsUnexpected(r) /\ PostResponse(req, r)) =>
                            notifications'[1].message \in UnexpectedErrors
           /\ Len(notifications') > Len(notifications) =>
                 \E f \in page.forms :
                    \/ Fired(<< "submit", f >>)
                    \/ Fired(<< "response", f >>)
                    \/ Fired(<< "rejected", f >>)
         ]_vars

\* a 200 response whose body is no JSON ended in the unexpected-error
\* notification, the only one of its submit
C19_Witness ==
    /\ log # <<>>
    /\ log[1] = << "response", "medicineForm" >>
    /\ Len(notifications) = 1
    /\ notifications[1].message =
          "An unexpected error occurred: Unexpected token < in JSON at position 0"
    /\ posts = {}

-----------------------------------------------------------------------------
(* C20 *)

\* C20: the response handler renders every response that arrives, whatever
\* the search field holds and whether the panel was cleared since the
\* request, and touches neither the field nor the selection; a search that
\* fails leaves the panel, the field and the selection fields as they were.
C20_RendersUnconditionally ==
    [][ /\ \A req \in searches, data \in SearchData :
             (Fired(<< "response", "search" >>) /\ SearchResponse(req, data)) =>
                /\ Len(searchResults') =
                      IF data.json = "array" /\ Len(data.rows) >= 1
                      THEN Len(data.rows) ELSE 1
                /\ UNCHANGED << patientSearchInput, patientIdInput,
                                patientNameDisplay >>
        /\ Fired(<< "rejected", "search" >>) =>
              UNCHANGED << searchResults, patientSearchInput, patientIdInput,
                           patientNameDisplay >>
      ]_vars

\* a patient was selected, which cleared the field and the panel, and the
\* response to an earlier key release then filled the panel with rows
C20_Witness ==
    /\ log # <<>>
    /\ log[1] = << "response", "search" >>
    /\ patientSearchInput = <<>>
    /\ patientIdInput # <<>>
    /\ \E k \in DOMAIN searchResults :
          "search-result-item" \in searchResults[k].classList

-----------------------------------------------------------------------------
(* Vocabulary of the properties of the realtime module *)

RealtimeFired(event) == fbLog' # <<>> /\ fbLog'[1] = event

Refused == << << "fetchRealtimeData" >>, << "console.error", "Cannot fetch data" >> >>

-----------------------------------------------------------------------------
(* C14 *)

\* C14: when the injected configuration is empty, the handles app, db and
\* auth and the user identifier are null and the readiness flag is false in
\* every state: no sign-in is attempted, no observer is registered, and every
\* call of fetchRealtimeData refuses and opens no subscription.
C14_EmptyConfigInert ==
    /\ [] ( (firebaseConfig.type = "object" /\ firebaseConfig.keys = {}) =>
              /\ app = Null /\ db = Null /\ auth = Null /\ userId = Null
              /\ isAuthReady = FALSE
              /\ signIns = <<>>
              /\ pc \in {"start", "returned"}
              /\ observerPending = FALSE
              /\ subscriptions = <<>> )
    /\ [][ ( firebaseConfig.type = "object" /\ firebaseConfig.keys = {}
             /\ fetches' = fetches + 1 ) => fbLog' = Refused ]_vars

\* with an empty configuration initializeFirebase has returned and two calls
\* of fetchRealtimeData were refused
C14_Witness ==
    /\ firebaseConfig = [ type |-> "object", keys |-> {} ]
    /\ pc = "returned"
    /\ fetches = 2
    /\ fbLog = Refused
    /\ subscriptions = <<>>

-----------------------------------------------------------------------------
(* C15 *)

\* C15: a call of fetchRealtimeData opens a subscription exactly when the
\* readiness flag is true and the database handle and the user identifier
\* are set, on the path built from the app identifier and the user
\* identifier of that moment; in any other state it opens none and makes no
\* collection or query; nothing else opens a subscription.
C15_SubscribeWhenReady ==
    [][ /\ fetches' = fetches + 1 =>
              IF isAuthReady /\ db # Null /\ userId # Null
              THEN subscriptions' =
                      subscriptions \o
                         << [ db |-> db,
                              path |-> "/artifacts/" \o appId \o "/users/"
                                          \o userId \o "/your_items" ] >>
              ELSE /\ subscriptions' = subscriptions
                   /\ \A i \in DOMAIN fbLog' :
                         fbLog'[i] \notin {<< "collection" >>, << "query" >>}
        /\ subscriptions' # subscriptions => fetches' = fetches + 1
      ]_vars

\* two subscriptions were opened, before and after a change of user, each on
\* the path of the user of its moment
C15_Witness ==
    /\ Len(subscriptions) = 2
    /\ subscriptions[1].path = "/artifacts/clinic/users/u1/your_items"
    /\ subscriptions[2].path = "/artifacts/clinic/users/u2/your_items"
    /\ userId = "u2"

-----------------------------------------------------------------------------
(* C16 *)

\* C16 as stated: once the readiness flag is true the user identifier is
\* never assigned a different value.
C16_AsStated ==
    [][ isAuthReady => userId' = userId ]_vars

\* C16 (amended): the readiness flag, once true, stays true; the user
\* identifier is assigned anew by every invocation of the observer, and by
\* nothing else: the uid of the user observed, or a freshly generated
\* identifier when no user is observed.
C16_AssignedPerChange ==
    [][ /\ isAuthReady => isAuthReady'
        /\ userId' # userId => RealtimeFired(<< "authStateChanged" >>)
        /\ RealtimeFired(<< "authStateChanged" >>) =>
              IF currentUser.present
              THEN userId' = currentUser.uid
              ELSE userId' \in {"uuid-1", "uuid-2"}
      ]_vars

\* a subscription was opened for the first user, and after a sign-out the
\* identifier is a generated one
C16_Witness ==
    /\ isAuthReady
    /\ Len(subscriptions) = 1
    /\ subscriptions[1].path = "/artifacts/default-app-id/users/u1/your_items"
    /\ userId = "uuid-1"
    /\ ~ currentUser.present

-----------------------------------------------------------------------------
(* C17 *)

InitializationFailed ==
    /\ Len(fbLog) = 2
    /\ fbLog[2] = << "console.error", "initialization failed" >>

-----------------------------------------------------------------------------
(* C18 *)

\* C18: in every state, readiness implies that app, db, auth and the user
\* identifier are non-null; the readiness flag never goes back to false; and
\* every invocation of the observer, with a user or without, leaves the user
\* identifier non-null and the readiness flag true.
C18_ReadyImpliesSet ==
    /\ [] ( isAuthReady =>
              (app # Null /\ db # Null /\ auth # Null /\ userId # Null) )
    /\ [][ /\ isAuthReady => isAuthReady'
           /\ RealtimeFired(<< "authStateChanged" >>) =>
                 (userId' # Null /\ isAuthReady')
         ]_vars

\* the observer was invoked without a user: the session is ready under a
\* generated identifier
C18_Witness ==
    /\ fbLog # <<>>
    /\ fbLog[1] = << "authStateChanged" >>
    /\ ~ currentUser.present
    /\ isAuthReady
    /\ userId = "uuid-2"
    /\ app = "FirebaseApp" /\ db = "Firestore" /\ auth = "Auth"

=============================================================================
